---- MODULE Spec2Model ----
(***************************************************************************)
(* The tool-call resolution loop of the agent service                      *)
(* (py_version/llm_provider_invocations/openai.py) together with the tool  *)
(* catalog it dispatches to (py_version/tools).                            *)
(*                                                                         *)
(* Representation of Python values:                                        *)
(*   - a str that may hold JSON is a record: [json |-> v] is the text      *)
(*     json.dumps produces for the value v, [text |-> s] is a text that    *)
(*     json.loads rejects;                                                 *)
(*   - a JSON object is [dict |-> set of <<key, value>>], a JSON array is  *)
(*     [list |-> seq], a JSON string is [str |-> s], a JSON number is      *)
(*     [mant |-> m, exp10 |-> e], that is m * 10^e;                        *)
(*   - an f-string is the sequence of its fragments, [lit |-> s] for the   *)
(*     literal parts and a one-field record for every interpolation;       *)
(*   - None in a name or text slot is NoneVal;                             *)
(*   - an SDK object is a record with the field obj, its attributes are    *)
(*     the other fields; a plain dict is a record with the field dict;     *)
(*   - money is counted in cents.                                          *)
(***************************************************************************)
EXTENDS Naturals, Sequences, FiniteSets, TLC

\* The largest max_iterations a caller passes in the model.
MaxIter == 2

\* The inputs a tool handed to the converter declares, at most.
MaxInputs == 2

\* The names a call of get_agents is handed, at most.
MaxNames == 3

\* The agents a request of the workflow lists, at most.
MaxAgents == 2

NoneVal == "<None>"
NoId == <<>>

\* getattr(o, f, d): a plain dict has no attributes.
Attr(o, f, d) == IF "obj" \in DOMAIN o /\ f \in DOMAIN o THEN o[f] ELSE d

\* dict.get(key, default) on a JSON object.
DictGet(d, k, default) ==
    IF \E p \in d.dict : p[1] = k
    THEN (CHOOSE p \in d.dict : p[1] = k)[2]
    ELSE default

EmptyDict == [dict |-> {}]
Num(m, e) == [mant |-> m, exp10 |-> e]

(***************************************************************************)
(* json.loads / json.dumps                                                 *)
(***************************************************************************)
Ok(v) == [ok |-> TRUE, val |-> v]
Raise(e) == [ok |-> FALSE, exc |-> e]

json_loads(s) ==
    IF "json" \in DOMAIN s THEN Ok(s.json) ELSE Raise("JSONDecodeError")

\* json.dumps has no encoder for an SDK object, also for one inside the list
\* output_items of the value.
JsonSerializable(v) ==
    /\ "obj" \notin DOMAIN v
    /\ "output_items" \in DOMAIN v =>
           \A i \in DOMAIN v.output_items : "obj" \notin DOMAIN v.output_items[i]

json_dumps(v) ==
    IF JsonSerializable(v) THEN Ok([json |-> v]) ELSE Raise("TypeError")

(***************************************************************************)
(* The raw argument texts a provider sends with a function_call.           *)
(***************************************************************************)
ArgsPension ==
    [json |-> [dict |-> {<<"current_salary", Num(9, 4)>>,
                         <<"years_of_service", Num(1, 1)>>,
                         <<"retirement_age", Num(65, 0)>>}]]
ArgsFsa ==
    [json |-> [dict |-> {<<"expected_medical_expenses", Num(2, 3)>>,
                         <<"account_type", [str |-> " Both"]>>}]]
ArgsHuge ==
    [json |-> [dict |-> {<<"expected_medical_expenses", Num(1, 400)>>,
                         <<"account_type", [str |-> "fsa"]>>}]]
ArgsList == [json |-> [list |-> <<Num(1, 0)>>]]
ArgsInvalid == [text |-> "{invalid"]

(***************************************************************************)
(* tools: the stub tools and the FSA/HSA heuristic                         *)
(***************************************************************************)
\* tool(**kwargs) needs a mapping after **.
IsMapping(v) == "dict" \in DOMAIN v

StubTool(note, kwargs) ==
    Ok([json |-> [input |-> kwargs, note |-> note]])

CalculatePensionTool(kwargs) ==
    StubTool("Stub calculate_pension implementation. Replace with real logic.", kwargs)

HealthInsuranceLookupTool(kwargs) ==
    StubTool("Stub health_insurance_lookup implementation. Replace with real logic.", kwargs)

PtoBalanceLookupTool(kwargs) ==
    StubTool("Stub pto_balance_lookup implementation. Replace with real logic.", kwargs)

BenefitsEnrollmentTool(kwargs) ==
    StubTool("Stub benefits_enrollment implementation. Replace with real logic.", kwargs)

FSA_CAP == 315000
HSA_CAP_INDIVIDUAL == 415000
TargetRatioPct == 80
HsaSharePct == 50

RECURSIVE Pow10(_)
Pow10(e) == IF e = 0 THEN 1 ELSE 10 * Pow10(e - 1)

Min(a, b) == IF a <= b THEN a ELSE b
Max(a, b) == IF a >= b THEN a ELSE b

\* float(x) in cents: a str that is no number and None are ValueError and
\* TypeError, an int beyond the range of a double (1.8 * 10^308) is
\* OverflowError.
FloatCents(v) ==
    IF "mant" \in DOMAIN v
    THEN IF v.exp10 > 308 THEN Raise("OverflowError")
         ELSE Ok(v.mant * Pow10(v.exp10) * 100)
    ELSE IF "str" \in DOMAIN v THEN Raise("ValueError")
    ELSE Raise("TypeError")

\* str(x).strip().lower() on the account types of the model.
StripLower(s) ==
    CASE s = " Both" -> "both"
      [] s = "FSA" -> "fsa"
      [] s = "HSA " -> "hsa"
      [] OTHER -> s

FsaHsaCalculatorTool(kwargs) ==
    LET f == FloatCents(DictGet(kwargs, "expected_medical_expenses", Num(0, 0)))
        caught == ~f.ok /\ f.exc \in {"TypeError", "ValueError"}
        expenses == IF f.ok THEN f.val ELSE 0
        atv == DictGet(kwargs, "account_type", [str |-> ""])
        account_type == IF "str" \in DOMAIN atv THEN StripLower(atv.str) ELSE "?"
        current_age == DictGet(kwargs, "current_age", [null |-> TRUE])
        retirement_age == DictGet(kwargs, "retirement_age", [null |-> TRUE])
        target == (expenses * TargetRatioPct) \div 100
        hsa_target == Min((expenses * HsaSharePct) \div 100, HSA_CAP_INDIVIDUAL)
        remaining == IF target >= hsa_target THEN target - hsa_target ELSE 0
        recommendations ==
            CASE account_type = "fsa" -> {<<"fsa", Min(target, FSA_CAP)>>}
              [] account_type = "hsa" -> {<<"hsa", Min(target, HSA_CAP_INDIVIDUAL)>>}
              [] account_type = "both" ->
                    {<<"hsa", hsa_target>>, <<"fsa", Min(remaining, FSA_CAP)>>}
              [] OTHER ->
                    {<<"suggested_contribution",
                       Min(target, Max(FSA_CAP, HSA_CAP_INDIVIDUAL))>>}
        rationale ==
            CASE account_type = "fsa" -> {"fsa"}
              [] account_type = "hsa" -> {"hsa"}
              [] account_type = "both" -> {"hsa", "fsa"}
              [] OTHER -> {"note"}
    IN  IF ~f.ok /\ ~caught THEN Raise(f.exc)
        ELSE Ok([json |->
                   [input |-> [expected_medical_expenses |-> expenses,
                               account_type |-> account_type,
                               current_age |-> current_age,
                               retirement_age |-> retirement_age],
                    recommendations |-> recommendations,
                    assumptions |-> [target_ratio |-> TargetRatioPct,
                                     fsa_cap |-> FSA_CAP,
                                     hsa_cap_individual |-> HSA_CAP_INDIVIDUAL],
                    rationale |-> rationale,
                    disclaimer |-> "This is a non-binding illustrative calculation. Consult plan documents and a tax advisor."]])

(***************************************************************************)
(* tools/registry.py                                                       *)
(***************************************************************************)
ToolRegistryNames ==
    {"calculate_pension", "health_insurance_lookup", "pto_balance_lookup",
     "benefits_enrollment", "fsa_hsa_calculator"}

\* The bug of a lookup that falls back to a registered tool.
get_tool_default(name) ==
    IF name \in ToolRegistryNames THEN name ELSE "calculate_pension"

\* _TOOL_REGISTRY.get(name): the name of the registered tool, or NoneVal.
get_tool(name) == IF name \in ToolRegistryNames THEN name ELSE NoneVal

\* tool_impl(**parsed_args)
CallTool(tool_impl, parsed_args) ==
    IF ~IsMapping(parsed_args) THEN Raise("TypeError")
    ELSE CASE tool_impl = "calculate_pension" -> CalculatePensionTool(parsed_args)
           [] tool_impl = "health_insurance_lookup" -> HealthInsuranceLookupTool(parsed_args)
           [] tool_impl = "pto_balance_lookup" -> PtoBalanceLookupTool(parsed_args)
           [] tool_impl = "benefits_enrollment" -> BenefitsEnrollmentTool(parsed_args)
           [] tool_impl = "fsa_hsa_calculator" -> FsaHsaCalculatorTool(parsed_args)

(***************************************************************************)
(* tools/base.py and the declarations of the five tools                    *)
(***************************************************************************)
\* The text an input or a tool is described with.
Description(name) == [describes |-> name]

\* tools/base.py ToolInput; required defaults to TRUE.
ToolInput(name, type, required) ==
    [name |-> name, type |-> type, description |-> Description(name),
     required |-> required]

Tool(name, inputs) ==
    [name |-> name, description |-> Description(name), inputs |-> inputs]

CalculatePensionInputs ==
    <<ToolInput("current_salary", "FLOAT", TRUE),
      ToolInput("years_of_service", "INTEGER", TRUE),
      ToolInput("retirement_age", "INTEGER", TRUE),
      ToolInput("pension_plan_type", "STRING", FALSE)>>

HealthInsuranceLookupInputs ==
    <<ToolInput("plan_id", "STRING", TRUE),
      ToolInput("employee_tier", "STRING", TRUE),
      ToolInput("state", "STRING", FALSE)>>

PtoBalanceLookupInputs ==
    <<ToolInput("employee_id", "STRING", TRUE),
      ToolInput("balance_type", "STRING", FALSE)>>

BenefitsEnrollmentInputs ==
    <<ToolInput("employee_id", "STRING", TRUE),
      ToolInput("enrollment_type", "STRING", TRUE),
      ToolInput("benefits_selections", "DICT", TRUE)>>

FsaHsaCalculatorInputs ==
    <<ToolInput("expected_medical_expenses", "FLOAT", TRUE),
      ToolInput("account_type", "STRING", TRUE),
      ToolInput("current_age", "INTEGER", FALSE),
      ToolInput("retirement_age", "INTEGER", FALSE)>>

\* benefits_agent.tools
BenefitsAgentTools ==
    <<Tool("calculate_pension", CalculatePensionInputs),
      Tool("health_insurance_lookup", HealthInsuranceLookupInputs),
      Tool("pto_balance_lookup", PtoBalanceLookupInputs),
      Tool("benefits_enrollment", BenefitsEnrollmentInputs),
      Tool("fsa_hsa_calculator", FsaHsaCalculatorInputs)>>

(***************************************************************************)
(* llm_tool_converters/openai.py                                           *)
(***************************************************************************)
\* The members of InputType the mapping names.
InputTypes == {"STRING", "INTEGER", "FLOAT", "BOOLEAN", "LIST", "DICT", "ANY"}

\* The bug of passing the name of the type through.
input_type_to_openai_type_float(input_type) ==
    CASE input_type = "STRING" -> "string"
      [] input_type = "INTEGER" -> "integer"
      [] input_type = "FLOAT" -> "float"
      [] input_type = "BOOLEAN" -> "boolean"
      [] input_type = "LIST" -> "array"
      [] input_type = "DICT" -> "object"
      [] OTHER -> "string"

\* mapping.get(input_type, "string")
input_type_to_openai_type(input_type) ==
    CASE input_type = "STRING" -> "string"
      [] input_type = "INTEGER" -> "integer"
      [] input_type = "FLOAT" -> "number"
      [] input_type = "BOOLEAN" -> "boolean"
      [] input_type = "LIST" -> "array"
      [] input_type = "DICT" -> "object"
      [] input_type = "ANY" -> "string"
      [] OTHER -> "string"

\* Lines 60-75: the property of one input.
PropertyData(tool_input) ==
    LET openai_type == input_type_to_openai_type(tool_input.type)
        property_data == [type |-> openai_type,
                          description |-> tool_input.description]
    IN  CASE openai_type = "object" ->
               [type |-> openai_type, description |-> tool_input.description,
                additionalProperties |-> FALSE, properties |-> <<>>]
          [] openai_type = "array" ->
               [type |-> openai_type, description |-> tool_input.description,
                items |-> [type |-> "string"]]
          [] OTHER -> property_data

\* A dict is the sequence of its entries in insertion order.
Keys(d) == [i \in 1..Len(d) |-> d[i].key]

\* d[key] = value: a key the dict has keeps its place.
DictSet(d, key, value) ==
    IF \E i \in 1..Len(d) : d[i].key = key
    THEN [i \in 1..Len(d) |->
            IF d[i].key = key THEN [key |-> key, value |-> value] ELSE d[i]]
    ELSE Append(d, [key |-> key, value |-> value])

\* Lines 56-77: the properties after the loop over tool.inputs.
RECURSIVE Properties(_, _)
Properties(properties, inputs) ==
    IF inputs = <<>> THEN properties
    ELSE Properties(DictSet(properties, Head(inputs).name,
                            PropertyData(Head(inputs))),
                    Tail(inputs))

\* The bug of requiring the inputs declared required only.
RECURSIVE RequiredFieldsByFlag(_, _)
RequiredFieldsByFlag(properties, inputs) ==
    IF inputs = <<>> THEN <<>>
    ELSE (IF Head(inputs).required THEN <<Head(inputs).name>> ELSE <<>>)
            \o RequiredFieldsByFlag(properties, Tail(inputs))

\* Line 79: list(properties.keys())
RequiredFields(properties, inputs) == Keys(properties)

\* Lines 55-101: the function of one tool.
OpenAIFunction(tool) ==
    LET properties == Properties(<<>>, tool.inputs)
        parameters == [type |-> "object",
                       properties |-> properties,
                       required |-> RequiredFields(properties, tool.inputs),
                       additionalProperties |-> FALSE]
    IN  [type |-> "function",
         function |-> [name |-> tool.name,
                       description |-> tool.description,
                       parameters |-> parameters],
         name |-> tool.name,
         description |-> tool.description,
         parameters |-> parameters,
         strict |-> TRUE]

convert_tools_to_openai(tools) ==
    [i \in 1..Len(tools) |-> OpenAIFunction(tools[i])]

(***************************************************************************)
(* What the provider returns: response.output and response.output_text     *)
(***************************************************************************)
FunctionCall(name, arguments, call_id) ==
    [obj |-> TRUE, type |-> "function_call", name |-> name,
     arguments |-> arguments, call_id |-> call_id]

\* A function_call item that carries no name attribute.
FunctionCallNoName(arguments, call_id) ==
    [obj |-> TRUE, type |-> "function_call",
     arguments |-> arguments, call_id |-> call_id]

ToolUse(id, name) ==
    [obj |-> TRUE, type |-> "tool_use", id |-> id, name |-> name,
     input |-> EmptyDict]

OutputText == [obj |-> TRUE, type |-> "output_text"]

Message(content) == [obj |-> TRUE, type |-> "message", content |-> content]

\* An output item that is a plain dict, not an SDK object.
PlainDictItem == [dict |-> "message"]

\* The items without a tool request.
PlainItems == {Message(<<OutputText>>), PlainDictItem}

\* Every kind of item with a tool request, with the correlation id the
\* provider issues for it.
RequestItems(id) ==
    {FunctionCall("calculate_pension", ArgsPension, id),
     FunctionCall("calculate_pension", ArgsInvalid, id),
     FunctionCall("calculate_pension", ArgsList, id),
     FunctionCall("fsa_hsa_calculator", ArgsFsa, id),
     FunctionCall("fsa_hsa_calculator", ArgsHuge, id),
     FunctionCall("unknown_tool", ArgsPension, id),
     FunctionCall("", ArgsPension, id),
     FunctionCallNoName(ArgsPension, id),
     Message(<<ToolUse(id, "calculate_pension")>>),
     Message(<<ToolUse(id, "unknown_tool")>>),
     Message(<<OutputText, ToolUse(id, NoneVal)>>)}

\* The items that occur in outputs of two items: the kinds the loop resolves
\* along different paths.
PairItems(id) ==
    {FunctionCall("calculate_pension", ArgsPension, id),
     FunctionCall("fsa_hsa_calculator", ArgsHuge, id),
     FunctionCall("unknown_tool", ArgsInvalid, id),
     FunctionCallNoName(ArgsPension, id),
     Message(<<ToolUse(id, "calculate_pension")>>),
     Message(<<OutputText>>),
     PlainDictItem}

\* The outputs of provider call number c; its ids are <<c, position>>.
ProviderOutputs(c) ==
    {<<>>}
        \cup {<<a>> : a \in RequestItems(<<c, 1>>) \cup PlainItems}
        \cup {<<a, b>> : a \in PairItems(<<c, 1>>), b \in PairItems(<<c, 2>>)}

FinalText == "Your projected pension is ..."
PaddedText == " 42\n"
OutputTexts == {NoneVal, "", "  ", FinalText, PaddedText}

\* str.strip() on the texts of the model.
Strip(t) ==
    CASE t = "  " -> ""
      [] t = PaddedText -> "42"
      [] OTHER -> t

(***************************************************************************)
(* invoke_openai: the parse of one response                                *)
(***************************************************************************)
RECURSIVE FunctionCallsOf(_)
FunctionCallsOf(items) ==
    IF items = <<>> THEN <<>>
    ELSE LET item == Head(items)
         IN  (IF Attr(item, "type", NoneVal) = "function_call"
              THEN <<[name |-> Attr(item, "name", NoneVal),
                      arguments |-> Attr(item, "arguments", [json |-> EmptyDict]),
                      call_id |-> Attr(item, "call_id", NoId)]>>
              ELSE <<>>) \o FunctionCallsOf(Tail(items))

RECURSIVE ToolUsesIn(_)
ToolUsesIn(contents) ==
    IF contents = <<>> THEN <<>>
    ELSE LET c == Head(contents)
         IN  (IF Attr(c, "type", NoneVal) = "tool_use"
              THEN <<[id |-> Attr(c, "id", NoId),
                      name |-> Attr(c, "name", NoneVal),
                      input |-> Attr(c, "input", EmptyDict)]>>
              ELSE <<>>) \o ToolUsesIn(Tail(contents))

RECURSIVE ToolUsesOf(_)
ToolUsesOf(items) ==
    IF items = <<>> THEN <<>>
    ELSE ToolUsesIn(Attr(Head(items), "content", <<>>)) \o ToolUsesOf(Tail(items))

invoke_openai(output, output_text) ==
    [output_items |-> output,
     function_calls |-> FunctionCallsOf(output),
     tool_uses |-> ToolUsesOf(output),
     output_text |-> output_text]

(***************************************************************************)
(* invoke_openai_loop                                                      *)
(***************************************************************************)
VARIABLES
    agent_tools,     \* agent.tools of the agent invoke_agent runs
    tools,           \* the tools argument of invoke_openai_loop
    env_key,         \* OPENAI_API_KEY is set
    input_list,      \* the caller's list
    max_iterations,
    pc,              \* "start", "loop", "resolve", "returned", "raised"
    loop_input,      \* the transcript of the invocation
    iter,            \* iterations of the for loop begun
    output_items,    \* result["output_items"] of the iteration
    function_calls,  \* result["function_calls"] of the iteration
    tool_uses,       \* result["tool_uses"] of the iteration
    fc_done,         \* function calls of the iteration resolved
    tu_done,         \* tool uses of the iteration resolved
    items_end,       \* Len(loop_input) after the iteration's output items
    provider_calls,  \* calls of client.responses.create
    tool_runs,       \* the calls tool_impl(**parsed_args), in order
    final,           \* the response without tool requests, once there is one
    ret,             \* the returned str
    exc              \* the exception that left the function

loop_vars == <<agent_tools, tools, env_key, input_list, max_iterations, pc,
               loop_input, iter, output_items, function_calls, tool_uses,
               fc_done, tu_done, items_end, provider_calls, tool_runs, final,
               ret, exc>>

\* convert_tools_to_openai
VARIABLES
    conv_tools,        \* the argument tools
    openai_functions   \* the returned list

conv_vars == <<conv_tools, openai_functions>>

\* agents/registry.py
VARIABLES
    AGENT_REGISTRY,    \* the dict of the registered agents
    agent_names,       \* the argument of get_agents
    agents_result      \* what get_agents returned or raised

reg_vars == <<AGENT_REGISTRY, agent_names, agents_result>>

\* AgentWorkflow.run
VARIABLES
    request,           \* the AgentRequest of the run
    wf_env_key,        \* OPENAI_API_KEY is set on the worker
    wf_pc,             \* "say_hello", "invoke_agent", "completed", "failed"
    activity_log,      \* the attempts of activities started, in order
    wf_result          \* what the run returned or raised

wf_vars == <<request, wf_env_key, wf_pc, activity_log, wf_result>>

\* Invocations of invoke_openai_loop side by side
VARIABLES
    heap,              \* the list objects: the caller's and the transcripts
    inv,               \* the locals of each invocation
    oracle             \* the answers of the provider stub so far

con_vars == <<heap, inv, oracle>>

\* The state of the operations other than invoke_openai_loop.
aux_vars == <<conv_vars, reg_vars, wf_vars, con_vars>>

vars == <<loop_vars, aux_vars>>

Sentinel == [str |-> "Reached max tool iterations without final answer."]
NoValue == [none |-> TRUE]

SystemTurn == [role |-> "system", content |-> "system_prompt"]
UserTurn == [role |-> "user", content |-> "input_text"]
\* The lists invoke_agent builds: the system prompt is optional.
InputLists == {<<UserTurn>>, <<SystemTurn, UserTurn>>}

\* max_iterations: int = 5, the cap invoke_agent runs the loop with.
DefaultMaxIterations == 5

\* The agents invoke_agent runs: one that declares no tool, and benefits_agent.
AgentToolLists == {<<>>, BenefitsAgentTools}

\* The bug of sending the catalog whatever the agent declares.
AgentToolSchemasCatalog(declared) ==
    [list |-> convert_tools_to_openai(BenefitsAgentTools)]

\* invoke_agent lines 38-42: tools stays None unless the agent declares tools.
AgentToolSchemas(declared) ==
    IF declared # <<>>
    THEN [list |-> convert_tools_to_openai(declared)]
    ELSE NoValue

\* invoke_openai lines 43-49: the tools of the request; the key is left out
\* when the argument is None or empty.
RequestTools(tools_arg) ==
    IF "list" \in DOMAIN tools_arg /\ tools_arg.list # <<>>
    THEN tools_arg
    ELSE NoValue

\* The outputs of provider call number c for a request that carries the tools
\* sent: the provider requests tools only of a request that offers some.
ProviderOutputsFor(sent, c) ==
    IF sent = NoValue
    THEN {out \in ProviderOutputs(c) :
            FunctionCallsOf(out) = <<>> /\ ToolUsesOf(out) = <<>>}
    ELSE ProviderOutputs(c)

\* The bug of a loop that runs once more than the cap.
InRangeInclusive(i, n) == i <= n

\* for _ in range(max_iterations): another iteration follows i iterations.
InRange(i, n) == i < n

Truthy(name) == name \notin {NoneVal, ""}

\* The bug of keeping the raw text when it does not parse.
ParseArgumentsKeepRaw(args_json) ==
    LET loaded == json_loads(args_json)
    IN  IF loaded.ok THEN loaded.val ELSE args_json

\* Lines 138-141: args_json is a str in every request of the model.
ParseArguments(args_json) ==
    LET loaded == json_loads(args_json)
    IN  IF loaded.ok THEN loaded.val ELSE EmptyDict

\* The bug of a placeholder that carries a count kept across invocations.
PlaceholderCounting(name, args_json) ==
    [result |-> <<[lit |-> "Function '"], [name |-> name],
                  [lit |-> "' called with args "], [args_json |-> args_json],
                  [lit |-> ". Implementation needed."],
                  [count |-> Cardinality(oracle)]>>]

\* Lines 155-158
Placeholder(name, args_json) ==
    [result |-> <<[lit |-> "Function '"], [name |-> name],
                  [lit |-> "' called with args "], [args_json |-> args_json],
                  [lit |-> ". Implementation needed."]>>]

\* The bug of an except branch that does not set executed: the placeholder
\* replaces the error payload.
ExecuteNoExecutedFlag(tool_impl, name, args_json, parsed_args) ==
    LET call == CallTool(tool_impl, parsed_args)
        reloaded == json_loads(call.val)
    IN  IF call.ok /\ reloaded.ok
        THEN reloaded.val
        ELSE Placeholder(name, args_json)

\* Lines 146-154: the call of the tool inside try/except.
Execute(tool_impl, name, args_json, parsed_args) ==
    LET call == CallTool(tool_impl, parsed_args)
        reloaded == json_loads(call.val)
        e == IF call.ok THEN reloaded.exc ELSE call.exc
    IN  IF call.ok /\ reloaded.ok
        THEN reloaded.val
        ELSE [error |-> <<[lit |-> "Tool execution failed: "], [e |-> e]>>,
              input |-> parsed_args]

\* Lines 134-158: what one function call is resolved to. run is the call
\* tool_impl(**parsed_args) it made, if any.
ResolveFunctionCall(fc) ==
    LET name == fc.name
        args_json == fc.arguments
        parsed_args == ParseArguments(args_json)
        tool_impl == IF Truthy(name) THEN get_tool(name) ELSE NoneVal
        found == Truthy(name) /\ tool_impl # NoneVal
    IN  [result_payload |->
            IF found
            THEN Execute(tool_impl, name, args_json, parsed_args)
            ELSE Placeholder(name, args_json),
         run |->
            IF found
            THEN <<[call_id |-> fc.call_id, tool |-> tool_impl,
                    kwargs |-> parsed_args,
                    returned |-> CallTool(tool_impl, parsed_args).ok]>>
            ELSE <<>>]

\* The bug of reading the correlation id under the key "id", which a
\* function call does not have.
FunctionCallOutputById(fc, output) ==
    [type |-> "function_call_output", call_id |-> NoId, output |-> output]

\* Lines 159-163
FunctionCallOutput(fc, output) ==
    [type |-> "function_call_output", call_id |-> fc.call_id, output |-> output]

\* Lines 167-171
ToolUsePayload(tu) ==
    [result |-> <<[lit |-> "Tool '"], [name |-> tu.name],
                  [lit |-> "' called with args "], [args |-> tu.input],
                  [lit |-> ". Implementation needed."]>>]

\* Lines 172-176
ToolResult(tu, content) ==
    [type |-> "tool_result", tool_use_id |-> tu.id, content |-> content]

\* The bug of returning the stripped text.
FinalAnswerStripped(result) ==
    LET output_text == result.output_text
    IN  IF output_text # NoneVal /\ Strip(output_text) # ""
        THEN Ok([str |-> Strip(output_text)])
        ELSE json_dumps(result)

\* Lines 125-130: the outcome of a response without tool requests.
FinalAnswer(result) ==
    LET output_text == result.output_text
    IN  IF output_text # NoneVal /\ Strip(output_text) # ""
        THEN Ok([str |-> output_text])
        ELSE json_dumps(result)

\* The bug of assigning the output items instead of extending with them.
SaveOutputsOverwrite(transcript, items) == items

\* Lines 117-118: loop_input += output_items
SaveOutputs(transcript, items) == transcript \o items

\* Where the for loops of an iteration stand once fcd function calls and tud
\* tool uses are resolved.
AfterResolve(fcs, tus, fcd, tud) ==
    IF fcd = Len(fcs) /\ tud = Len(tus) THEN "loop" ELSE "resolve"

\* The state of convert_tools_to_openai while it is not under study.
ConvIdle ==
    /\ conv_tools = <<>>
    /\ openai_functions = NoValue

\* The state of get_agents while it is not under study.
RegIdle ==
    /\ AGENT_REGISTRY = <<>>
    /\ agent_names = <<>>
    /\ agents_result = NoValue

\* The state of AgentWorkflow while it is not under study.
WfIdle ==
    /\ request = NoValue
    /\ wf_env_key = FALSE
    /\ wf_pc = "idle"
    /\ activity_log = <<>>
    /\ wf_result = NoValue

\* The state of the invocations side by side while they are not under study.
ConIdle ==
    /\ heap = <<>>
    /\ inv = <<>>
    /\ oracle = {}

\* The caps the loop is run with: the small ones, and for an agent without
\* tools also the default.
MaxIterations(declared) ==
    IF declared = <<>>
    THEN 0..MaxIter \cup {DefaultMaxIterations}
    ELSE 0..MaxIter

Init ==
    /\ agent_tools \in AgentToolLists
    /\ tools = AgentToolSchemas(agent_tools)
    /\ env_key \in BOOLEAN
    /\ input_list \in InputLists
    /\ max_iterations \in MaxIterations(agent_tools)
    /\ ConvIdle
    /\ RegIdle
    /\ WfIdle
    /\ ConIdle
    /\ pc = "start"
    /\ loop_input = <<>>
    /\ iter = 0
    /\ output_items = <<>>
    /\ function_calls = <<>>
    /\ tool_uses = <<>>
    /\ fc_done = 0
    /\ tu_done = 0
    /\ items_end = 0
    /\ provider_calls = 0
    /\ tool_runs = <<>>
    /\ final = NoValue
    /\ ret = NoValue
    /\ exc = NoValue

\* Lines 104-109: the credential check and the copy of the caller's list.
Start ==
    /\ pc = "start"
    /\ IF env_key
       THEN /\ loop_input' = input_list
            /\ pc' = "loop"
            /\ exc' = exc
       ELSE /\ pc' = "raised"
            /\ exc' = [type |-> "ValueError", of |-> "OPENAI_API_KEY"]
            /\ loop_input' = loop_input
    /\ UNCHANGED <<aux_vars, agent_tools, tools, env_key, input_list, max_iterations, iter, output_items,
                   function_calls,
                   tool_uses, fc_done, tu_done, items_end, provider_calls,
                   tool_runs, final, ret>>

\* Lines 111-130: one iteration up to the decision whether it is the last;
\* the provider answers with the output items out and the text output_text.
ProviderResponds ==
    /\ pc = "loop"
    /\ InRange(iter, max_iterations)
    /\ \E out \in ProviderOutputsFor(RequestTools(tools), provider_calls + 1),
          output_text \in OutputTexts :
         LET result == invoke_openai(out, output_text)
             answer == FinalAnswer(result)
         IN  /\ output_items' = result.output_items
             /\ loop_input' = SaveOutputs(loop_input, result.output_items)
             /\ items_end' = Len(SaveOutputs(loop_input, result.output_items))
             /\ function_calls' = result.function_calls
             /\ tool_uses' = result.tool_uses
             /\ IF result.function_calls = <<>> /\ result.tool_uses = <<>>
                THEN /\ final' = [output |-> out, output_text |-> output_text,
                                       call |-> provider_calls + 1]
                     /\ IF answer.ok
                        THEN /\ pc' = "returned"
                             /\ ret' = answer.val
                             /\ exc' = exc
                        ELSE /\ pc' = "raised"
                             /\ exc' = [type |-> answer.exc, of |-> "json.dumps"]
                             /\ ret' = ret
                ELSE /\ pc' = "resolve"
                     /\ UNCHANGED <<final, ret, exc>>
    /\ iter' = iter + 1
    /\ provider_calls' = provider_calls + 1
    /\ fc_done' = 0
    /\ tu_done' = 0
    /\ UNCHANGED <<aux_vars, agent_tools, tools, env_key, input_list, max_iterations, tool_runs>>

\* Line 51: client.responses.create fails; nothing in the loop catches it.
ProviderFails ==
    /\ pc = "loop"
    /\ InRange(iter, max_iterations)
    /\ iter' = iter + 1
    /\ provider_calls' = provider_calls + 1
    /\ pc' = "raised"
    /\ exc' = [type |-> "ProviderError", of |-> "client.responses.create"]
    /\ UNCHANGED <<aux_vars, agent_tools, tools, env_key, input_list, max_iterations, loop_input,
                   output_items, function_calls, tool_uses, fc_done, tu_done,
                   items_end, tool_runs, final, ret>>

\* Lines 133-163: the body of the first for loop, for the next function call.
ResolveNextFunctionCall ==
    /\ pc = "resolve"
    /\ fc_done < Len(function_calls)
    /\ LET fc == function_calls[fc_done + 1]
           r == ResolveFunctionCall(fc)
           output == json_dumps(r.result_payload)
       IN  /\ tool_runs' = tool_runs \o r.run
           /\ IF output.ok
              THEN /\ loop_input' = Append(loop_input, FunctionCallOutput(fc, output.val))
                   /\ fc_done' = fc_done + 1
                   /\ pc' = AfterResolve(function_calls, tool_uses, fc_done + 1, tu_done)
                   /\ exc' = exc
              ELSE /\ pc' = "raised"
                   /\ exc' = [type |-> output.exc, of |-> "json.dumps"]
                   /\ UNCHANGED <<loop_input, fc_done>>
    /\ UNCHANGED <<aux_vars, agent_tools, tools, env_key, input_list, max_iterations, iter, output_items,
                   function_calls,
                   tool_uses, tu_done, items_end, provider_calls, final, ret>>

\* Lines 166-176: the body of the second for loop, for the next tool use.
ResolveNextToolUse ==
    /\ pc = "resolve"
    /\ fc_done = Len(function_calls)
    /\ tu_done < Len(tool_uses)
    /\ LET tu == tool_uses[tu_done + 1]
           content == json_dumps(ToolUsePayload(tu))
       IN  IF content.ok
           THEN /\ loop_input' = Append(loop_input, ToolResult(tu, content.val))
                /\ tu_done' = tu_done + 1
                /\ pc' = AfterResolve(function_calls, tool_uses, fc_done, tu_done + 1)
                /\ exc' = exc
           ELSE /\ pc' = "raised"
                /\ exc' = [type |-> content.exc, of |-> "json.dumps"]
                /\ UNCHANGED <<loop_input, tu_done>>
    /\ UNCHANGED <<aux_vars, agent_tools, tools, env_key, input_list, max_iterations, iter, output_items,
                   function_calls,
                   tool_uses, fc_done, items_end, provider_calls, tool_runs,
                   final, ret>>

\* Lines 178-179: range(max_iterations) is used up.
Exhausted ==
    /\ pc = "loop"
    /\ ~InRange(iter, max_iterations)
    /\ pc' = "returned"
    /\ ret' = Sentinel
    /\ UNCHANGED <<aux_vars, agent_tools, tools, env_key, input_list, max_iterations, loop_input, iter,
                   output_items, function_calls, tool_uses, fc_done, tu_done, items_end,
                   provider_calls, tool_runs, final, exc>>

Next ==
    \/ Start
    \/ ProviderResponds
    \/ ProviderFails
    \/ ResolveNextFunctionCall
    \/ ResolveNextToolUse
    \/ Exhausted

Spec == Init /\ [][Next]_vars

(***************************************************************************)
(* convert_tools_to_openai on its own                                      *)
(***************************************************************************)
\* The state of invoke_openai_loop while it is not under study.
LoopIdle ==
    /\ agent_tools = <<>>
    /\ tools = NoValue
    /\ env_key = FALSE
    /\ input_list = <<>>
    /\ max_iterations = 0
    /\ pc = "idle"
    /\ loop_input = <<>>
    /\ iter = 0
    /\ output_items = <<>>
    /\ function_calls = <<>>
    /\ tool_uses = <<>>
    /\ fc_done = 0
    /\ tu_done = 0
    /\ items_end = 0
    /\ provider_calls = 0
    /\ tool_runs = <<>>
    /\ final = NoValue
    /\ ret = NoValue
    /\ exc = NoValue

\* The names a declared input has: two, so that a name can be declared twice.
InputNames == {"amount", "plan"}

\* Every declaration of one input.
ToolInputs ==
    {ToolInput(name, type, required) :
        name \in InputNames, type \in InputTypes, required \in BOOLEAN}

\* The lists of inputs of a tool, up to MaxInputs inputs.
InputListsUpTo(n) ==
    UNION {[1..k -> ToolInputs] : k \in 0..n}

\* The arguments of convert_tools_to_openai: no tool, one tool with any
\* inputs, and the tools of benefits_agent.
ConvToolLists ==
    {<<>>, BenefitsAgentTools}
        \cup {<<Tool("tool", inputs)>> : inputs \in InputListsUpTo(MaxInputs)}

ConvInit ==
    /\ conv_tools \in ConvToolLists
    /\ openai_functions = NoValue
    /\ LoopIdle
    /\ RegIdle
    /\ WfIdle
    /\ ConIdle

\* The call convert_tools_to_openai(tools).
Convert ==
    /\ openai_functions = NoValue
    /\ openai_functions' = [list |-> convert_tools_to_openai(conv_tools)]
    /\ UNCHANGED <<loop_vars, reg_vars, wf_vars, con_vars, conv_tools>>

ConvNext == Convert

SpecConvert == ConvInit /\ [][ConvNext]_vars

(***************************************************************************)
(* agents/registry.py: get_agent and get_agents                            *)
(***************************************************************************)
\* agents/benefits.py
benefits_agent ==
    [name |-> "Benefits Assistant", llm_provider |-> "OPENAI",
     model |-> "gpt-4", tools |-> BenefitsAgentTools]

\* An agent registered beside benefits_agent.
payroll_agent ==
    [name |-> "Payroll Assistant", llm_provider |-> "OPENAI",
     model |-> "gpt-4", tools |-> <<>>]

\* The dict as the module builds it, and the dict after a second agent was
\* registered in it.
AgentRegistries ==
    {<<[key |-> "benefits", value |-> benefits_agent]>>,
     <<[key |-> "benefits", value |-> benefits_agent],
       [key |-> "payroll", value |-> payroll_agent]>>}

\* d[key] of a dict that has the key.
DictItem(d, key) == d[CHOOSE i \in DOMAIN d : d[i].key = key].value

\* The names a request asks for.
RequestedNames == {"benefits", "payroll", "Benefits Assistant", ""}

\* The lists of names handed to get_agents, up to MaxNames names.
NameLists == UNION {[1..k -> RequestedNames] : k \in 0..MaxNames}

\* Lines 17-21
get_agent(registry, agent_name) ==
    IF agent_name \notin {registry[i].key : i \in DOMAIN registry}
    THEN Raise([type |-> "ValueError", agent_name |-> agent_name,
                available |-> Keys(registry)])
    ELSE Ok(DictItem(registry, agent_name))

\* The bug of leaving out the names that are not registered.
RECURSIVE get_agents_skipping(_, _)
get_agents_skipping(registry, names) ==
    IF names = <<>> THEN Ok(<<>>)
    ELSE LET first == get_agent(registry, Head(names))
             rest == get_agents_skipping(registry, Tail(names))
         IN  Ok((IF first.ok THEN <<first.val>> ELSE <<>>) \o rest.val)

\* Lines 24-26: the comprehension ends at the first name that raises.
RECURSIVE get_agents(_, _)
get_agents(registry, names) ==
    IF names = <<>> THEN Ok(<<>>)
    ELSE LET first == get_agent(registry, Head(names))
             rest == get_agents(registry, Tail(names))
         IN  IF ~first.ok THEN first
             ELSE IF ~rest.ok THEN rest
             ELSE Ok(<<first.val>> \o rest.val)

RegInit ==
    /\ AGENT_REGISTRY \in AgentRegistries
    /\ agent_names \in NameLists
    /\ agents_result = NoValue
    /\ LoopIdle
    /\ ConvIdle
    /\ WfIdle
    /\ ConIdle

\* The call get_agents(agent_names) of main.py.
GetAgents ==
    /\ agents_result = NoValue
    /\ agents_result' = get_agents(AGENT_REGISTRY, agent_names)
    /\ UNCHANGED <<loop_vars, conv_vars, wf_vars, con_vars, AGENT_REGISTRY,
                   agent_names>>

RegNext == GetAgents

SpecRegistry == RegInit /\ [][RegNext]_vars

(***************************************************************************)
(* temporal/agent.py and temporal/activities/invoke_agent.py               *)
(***************************************************************************)
\* RetryPolicy(maximum_attempts=3) of both execute_activity calls.
MaximumAttempts == 3

\* The members of LLMProvider, as invoke_agent and convert_tools name them.
LLMProviders == {"OPENAI", "ANTHROPIC", "GEMINI"}

\* The members of OpenAIModel: the model of benefits_agent and the default
\* of invoke_openai_loop.
OpenAIModels == {"gpt-4"}

\* The agent definitions of a request: the provider is OPENAI, ANTHROPIC or
\* one LLMProvider does not have, the model is gpt-4 or one no provider has.
AgentDefinitions ==
    {[name |-> "Benefits Assistant", llm_provider |-> p, model |-> m, tools |-> t] :
        p \in {"OPENAI", "ANTHROPIC", "AZURE"},
        m \in {"gpt-4", "gpt-0"},
        t \in AgentToolLists}

\* A configuration error: ValueError of a check of the agent definition or
\* of the credential.
ConfigurationError(of) == Raise([type |-> "ValueError", of |-> of, config |-> TRUE])

Failure(type, of) == Raise([type |-> type, of |-> of, config |-> FALSE])

\* invoke_openai_loop as invoke_agent sees it: the credential check, then a
\* returned str or an exception of the provider call or of json.dumps.
LoopOutcomes(key) ==
    IF ~key THEN {ConfigurationError("OPENAI_API_KEY")}
    ELSE {Ok([str |-> FinalText]), Ok(Sentinel),
          Failure("ProviderError", "client.responses.create"),
          Failure("TypeError", "json.dumps")}

\* invoke_agent lines 29-98: the outcomes of one execution.
InvokeAgentOutcomes(agent, key) ==
    IF agent.llm_provider \notin LLMProviders
    THEN {ConfigurationError("llm_provider")}
    ELSE IF agent.tools # <<>> /\ agent.llm_provider # "OPENAI"
    THEN {Failure("NotImplementedError", "convert_tools")}
    ELSE IF agent.llm_provider = "OPENAI"
    THEN IF agent.model \notin OpenAIModels
         THEN {ConfigurationError("model")}
         ELSE LoopOutcomes(key)
    ELSE {ConfigurationError("model")}

\* The retry policy of temporal/agent.py names no non-retryable error type:
\* a failed attempt is followed by another while attempts are left.
RetriesLeft(attempt, failure) == attempt < MaximumAttempts

\* The attempts of the activity in the log.
Attempts(log, activity) ==
    Cardinality({i \in DOMAIN log : log[i].activity = activity})

\* The bug of running the last agent of the request.
LastAgent(agents) == agents[Len(agents)]

\* Line 30: agent = request.agents[0]
FirstAgent(agents) == agents[1]

\* The lists of agents of a request, up to MaxAgents agents.
AgentLists == UNION {[1..k -> AgentDefinitions] : k \in 0..MaxAgents}

WfInit ==
    /\ request \in {[request_text |-> "input_text", agents |-> a] : a \in AgentLists}
    /\ wf_env_key \in BOOLEAN
    /\ wf_pc = "say_hello"
    /\ activity_log = <<>>
    /\ wf_result = NoValue
    /\ LoopIdle
    /\ ConvIdle
    /\ RegIdle
    /\ ConIdle

\* Lines 16-29: one attempt of say_hello; after the attempt that completes,
\* the check of request.agents.
SayHello ==
    /\ wf_pc = "say_hello"
    /\ \E outcome \in {Ok([str |-> "hello"]), Failure("ActivityError", "say_hello")} :
         LET attempt == Attempts(activity_log, "say_hello") + 1
         IN  /\ activity_log' = Append(activity_log,
                    [activity |-> "say_hello", agent |-> NoValue,
                     attempt |-> attempt, outcome |-> outcome])
             /\ IF outcome.ok
                THEN IF request.agents = <<>>
                     THEN /\ wf_pc' = "failed"
                          /\ wf_result' = Failure("ValueError", "AgentRequest.agents")
                     ELSE /\ wf_pc' = "invoke_agent"
                          /\ wf_result' = wf_result
                ELSE IF RetriesLeft(attempt, outcome.exc)
                     THEN UNCHANGED <<wf_pc, wf_result>>
                     ELSE /\ wf_pc' = "failed"
                          /\ wf_result' = outcome
    /\ UNCHANGED <<loop_vars, conv_vars, reg_vars, con_vars, request, wf_env_key>>

\* Lines 30-46: one attempt of invoke_agent for the agent of line 30.
InvokeAgent ==
    /\ wf_pc = "invoke_agent"
    /\ LET agent == FirstAgent(request.agents)
           attempt == Attempts(activity_log, "invoke_agent") + 1
       IN  \E outcome \in InvokeAgentOutcomes(agent, wf_env_key) :
             /\ activity_log' = Append(activity_log,
                    [activity |-> "invoke_agent", agent |-> agent,
                     attempt |-> attempt, outcome |-> outcome])
             /\ IF outcome.ok
                THEN /\ wf_pc' = "completed"
                     /\ wf_result' = outcome
                ELSE IF RetriesLeft(attempt, outcome.exc)
                     THEN UNCHANGED <<wf_pc, wf_result>>
                     ELSE /\ wf_pc' = "failed"
                          /\ wf_result' = outcome
    /\ UNCHANGED <<loop_vars, conv_vars, reg_vars, con_vars, request, wf_env_key>>

WfNext ==
    \/ SayHello
    \/ InvokeAgent

SpecWorkflow == WfInit /\ [][WfNext]_vars

(***************************************************************************)
(* Invocations of invoke_openai_loop side by side, on one input list       *)
(***************************************************************************)
Invocations == {"a", "b"}

\* The bug of working on the caller's list.
ListAlias(own, ref) == ref

\* Line 109: list(input_list) is a new list object, the invocation's own.
ListCopy(own, ref) == own

\* The outputs of the provider stub for its call number c.
StubOutputs(c) ==
    {<<Message(<<OutputText>>)>>,
     <<FunctionCall("calculate_pension", ArgsPension, <<c, 1>>)>>,
     <<FunctionCall("unknown_tool", ArgsInvalid, <<c, 1>>)>>,
     <<Message(<<ToolUse(<<c, 1>>, "calculate_pension")>>)>>,
     <<FunctionCall("calculate_pension", ArgsPension, <<c, 1>>),
       Message(<<ToolUse(<<c, 2>>, "unknown_tool")>>)>>}

\* What the stub may do at a call: fail, or answer with an output and a text.
StubAnswers(c) ==
    {[ok |-> FALSE]}
        \cup {[ok |-> TRUE, out |-> out, text |-> NoneVal] : out \in StubOutputs(c)}
        \cup {[ok |-> TRUE, out |-> <<Message(<<OutputText>>)>>, text |-> FinalText]}

\* The stub is a function of its input: for a transcript it has seen it does
\* what it did before.
AnswersFor(transcript, c) ==
    IF \E e \in oracle : e.input = transcript
    THEN {e.answer : e \in {e \in oracle : e.input = transcript}}
    ELSE StubAnswers(c)

NotStarted ==
    [pc |-> "start", ref |-> "none", iter |-> 0, function_calls |-> <<>>,
     tool_uses |-> <<>>, fc_done |-> 0, tu_done |-> 0, appended |-> <<>>,
     calls |-> <<>>, runs |-> <<>>, ret |-> NoValue, exc |-> NoValue]

ConInit ==
    /\ agent_tools = BenefitsAgentTools
    /\ tools = AgentToolSchemas(agent_tools)
    /\ env_key \in BOOLEAN
    /\ input_list \in InputLists
    /\ max_iterations \in 0..MaxIter
    /\ pc = "idle"
    /\ loop_input = <<>>
    /\ iter = 0
    /\ output_items = <<>>
    /\ function_calls = <<>>
    /\ tool_uses = <<>>
    /\ fc_done = 0
    /\ tu_done = 0
    /\ items_end = 0
    /\ provider_calls = 0
    /\ tool_runs = <<>>
    /\ final = NoValue
    /\ ret = NoValue
    /\ exc = NoValue
    /\ heap = [r \in {"caller"} \cup Invocations |->
                  IF r = "caller" THEN input_list ELSE <<>>]
    /\ inv = [i \in Invocations |-> NotStarted]
    /\ oracle = {}
    /\ ConvIdle
    /\ RegIdle
    /\ WfIdle

ConUnchanged == UNCHANGED <<loop_vars, conv_vars, reg_vars, wf_vars>>

\* Lines 104-109 of the invocation i.
ConStart(i) ==
    /\ inv[i].pc = "start"
    /\ IF env_key
       THEN LET ref == ListCopy(i, "caller")
            IN  /\ heap' = [heap EXCEPT ![ref] = heap["caller"]]
                /\ inv' = [inv EXCEPT ![i].pc = "loop", ![i].ref = ref]
       ELSE /\ inv' = [inv EXCEPT ![i].pc = "raised",
                                  ![i].exc = [type |-> "ValueError",
                                              of |-> "OPENAI_API_KEY"]]
            /\ heap' = heap
    /\ oracle' = oracle
    /\ ConUnchanged

\* Lines 111-130 of the invocation i: the provider call and what follows it
\* up to the for loops.
ConProviderCall(i) ==
    /\ inv[i].pc = "loop"
    /\ InRange(inv[i].iter, max_iterations)
    /\ LET me == inv[i]
           transcript == heap[me.ref]
       IN  \E answer \in AnswersFor(transcript, Len(me.calls) + 1) :
             /\ oracle' = oracle \cup {[input |-> transcript, answer |-> answer]}
             /\ IF ~answer.ok
                THEN /\ heap' = heap
                     /\ inv' = [inv EXCEPT
                            ![i].pc = "raised",
                            ![i].iter = @ + 1,
                            ![i].calls = Append(@, transcript),
                            ![i].exc = [type |-> "ProviderError",
                                        of |-> "client.responses.create"]]
                ELSE LET result == invoke_openai(answer.out, answer.text)
                         last == result.function_calls = <<>> /\ result.tool_uses = <<>>
                         final_answer == FinalAnswer(result)
                     IN  /\ heap' = [heap EXCEPT ![me.ref] =
                                        SaveOutputs(@, result.output_items)]
                         /\ inv' = [inv EXCEPT
                                ![i].pc = IF ~last THEN "resolve"
                                          ELSE IF final_answer.ok THEN "returned"
                                          ELSE "raised",
                                ![i].iter = @ + 1,
                                ![i].calls = Append(@, transcript),
                                ![i].appended = @ \o result.output_items,
                                ![i].function_calls = result.function_calls,
                                ![i].tool_uses = result.tool_uses,
                                ![i].fc_done = 0,
                                ![i].tu_done = 0,
                                ![i].ret = IF last /\ final_answer.ok
                                           THEN final_answer.val ELSE @,
                                ![i].exc = IF last /\ ~final_answer.ok
                                           THEN [type |-> final_answer.exc,
                                                 of |-> "json.dumps"]
                                           ELSE @]
    /\ ConUnchanged

\* Lines 133-163 of the invocation i, for its next function call.
ConResolveFunctionCall(i) ==
    /\ inv[i].pc = "resolve"
    /\ inv[i].fc_done < Len(inv[i].function_calls)
    /\ LET me == inv[i]
           fc == me.function_calls[me.fc_done + 1]
           r == ResolveFunctionCall(fc)
           output == json_dumps(r.result_payload)
           turn == FunctionCallOutput(fc, output.val)
       IN  IF output.ok
           THEN /\ heap' = [heap EXCEPT ![me.ref] = Append(@, turn)]
                /\ inv' = [inv EXCEPT
                       ![i].runs = @ \o r.run,
                       ![i].appended = Append(@, turn),
                       ![i].fc_done = @ + 1,
                       ![i].pc = AfterResolve(me.function_calls, me.tool_uses,
                                              me.fc_done + 1, me.tu_done)]
           ELSE /\ heap' = heap
                /\ inv' = [inv EXCEPT
                       ![i].runs = @ \o r.run,
                       ![i].pc = "raised",
                       ![i].exc = [type |-> output.exc, of |-> "json.dumps"]]
    /\ oracle' = oracle
    /\ ConUnchanged

\* Lines 166-176 of the invocation i, for its next tool use.
ConResolveToolUse(i) ==
    /\ inv[i].pc = "resolve"
    /\ inv[i].fc_done = Len(inv[i].function_calls)
    /\ inv[i].tu_done < Len(inv[i].tool_uses)
    /\ LET me == inv[i]
           tu == me.tool_uses[me.tu_done + 1]
           content == json_dumps(ToolUsePayload(tu))
           turn == ToolResult(tu, content.val)
       IN  IF content.ok
           THEN /\ heap' = [heap EXCEPT ![me.ref] = Append(@, turn)]
                /\ inv' = [inv EXCEPT
                       ![i].appended = Append(@, turn),
                       ![i].tu_done = @ + 1,
                       ![i].pc = AfterResolve(me.function_calls, me.tool_uses,
                                              me.fc_done, me.tu_done + 1)]
           ELSE /\ heap' = heap
                /\ inv' = [inv EXCEPT
                       ![i].pc = "raised",
                       ![i].exc = [type |-> content.exc, of |-> "json.dumps"]]
    /\ oracle' = oracle
    /\ ConUnchanged

\* Lines 178-179 of the invocation i.
ConExhausted(i) ==
    /\ inv[i].pc = "loop"
    /\ ~InRange(inv[i].iter, max_iterations)
    /\ inv' = [inv EXCEPT ![i].pc = "returned", ![i].ret = Sentinel]
    /\ UNCHANGED <<heap, oracle>>
    /\ ConUnchanged

\* The caller gives the invocation i up while it runs: it takes no further
\* step.
Abandon(i) ==
    /\ inv[i].pc \in {"loop", "resolve"}
    /\ inv' = [inv EXCEPT ![i].pc = "abandoned"]
    /\ UNCHANGED <<heap, oracle>>
    /\ ConUnchanged

ConNext ==
    \/ \E i \in Invocations : ConStart(i)
    \/ \E i \in Invocations : ConProviderCall(i)
    \/ \E i \in Invocations : ConResolveFunctionCall(i)
    \/ \E i \in Invocations : ConResolveToolUse(i)
    \/ \E i \in Invocations : ConExhausted(i)
    \/ \E i \in Invocations : Abandon(i)

SpecConcurrent == ConInit /\ [][ConNext]_vars

(***************************************************************************)
(* Vocabulary of the properties                                            *)
(***************************************************************************)
IsResultTurn(t) ==
    /\ "obj" \notin DOMAIN t
    /\ "type" \in DOMAIN t
    /\ t.type \in {"function_call_output", "tool_result"}

\* The request a result turn answers: the kind of request and its id.
TurnKey(t) ==
    IF t.type = "function_call_output"
    THEN <<"function_call", t.call_id>>
    ELSE <<"tool_use", t.tool_use_id>>

RECURSIVE PartKeys(_)
PartKeys(contents) ==
    IF contents = <<>> THEN <<>>
    ELSE (IF Head(contents).type = "tool_use"
          THEN <<(<<"tool_use", Head(contents).id>>)>>
          ELSE <<>>) \o PartKeys(Tail(contents))

\* The requests of a response in the order the provider presents them: item
\* by item, and inside an item its content parts in order.
RECURSIVE PresentedKeys(_)
PresentedKeys(items) ==
    IF items = <<>> THEN <<>>
    ELSE LET item == Head(items)
         IN  (IF "obj" \notin DOMAIN item THEN <<>>
              ELSE IF item.type = "function_call"
                   THEN <<(<<"function_call", item.call_id>>)>>
                   ELSE PartKeys(item.content))
             \o PresentedKeys(Tail(items))

Range(q) == {q[i] : i \in DOMAIN q}

\* The turns appended after the output items of the iteration.
IterationTurns == SubSeq(loop_input, items_end + 1, Len(loop_input))

ResultKeys(turns) == [i \in DOMAIN turns |-> TurnKey(turns[i])]

\* The number of result turns of the transcript that answer the request k.
Answers(k) ==
    Cardinality({i \in DOMAIN loop_input :
                    IsResultTurn(loop_input[i]) /\ TurnKey(loop_input[i]) = k})

\* The loop is about to issue the next provider call or to leave with the
\* sentinel, after an iteration that resolved tool requests.
IterationResolved == pc = "loop" /\ iter > 0

\* C1: when the next provider call is issued, or the loop leaves with the
\* sentinel, the transcript holds exactly one result turn for each tool
\* request of the iteration, with the request's correlation id, and no
\* result turn for an id the provider did not issue.
C1_OneResultPerRequest ==
    IterationResolved =>
        /\ \A i \in DOMAIN IterationTurns : IsResultTurn(IterationTurns[i])
        /\ Len(IterationTurns) = Len(PresentedKeys(output_items))
        /\ \A k \in Range(PresentedKeys(output_items)) : Answers(k) = 1
        /\ \A i \in DOMAIN loop_input :
              IsResultTurn(loop_input[i]) =>
                  TurnKey(loop_input[i]) \in Range(PresentedKeys(loop_input))

\* An iteration with a function call and a tool use is resolved, and a
\* second iteration after it.
C1_Witness ==
    /\ IterationResolved
    /\ iter = 2
    /\ Len(function_calls) = 1
    /\ Len(tool_uses) = 1
    /\ Len(IterationTurns) = 2

\* C2: the result turns of an iteration are appended in the order in which
\* the provider presented the requests.
C2_ResultsInRequestOrder ==
    IterationResolved =>
        ResultKeys(IterationTurns) = PresentedKeys(output_items)

\* No response without tool requests has come and no provider call failed.
AlwaysRequested == env_key /\ final = NoValue /\ exc = NoValue

\* C3: with a provider that requests a tool in every response the loop makes
\* exactly max_iterations provider calls and returns the sentinel; it never
\* makes more than max_iterations provider calls.
C3_ExhaustionAfterMaxIterations ==
    /\ provider_calls <= max_iterations
    /\ (AlwaysRequested /\ pc \in {"returned", "raised"}) =>
           /\ pc = "returned"
           /\ ret = Sentinel
           /\ provider_calls = max_iterations
    /\ (AlwaysRequested /\ provider_calls = max_iterations /\ pc = "loop") =>
           ENABLED Exhausted

\* The sentinel is returned after two provider calls with tool requests.
C3_Witness ==
    /\ pc = "returned"
    /\ ret = Sentinel
    /\ max_iterations = 2
    /\ provider_calls = 2
    /\ Len(loop_input) > Len(input_list) + 2

NonBlank(t) == t # NoneVal /\ Strip(t) # ""

\* C4: the loop stops at the first response without tool requests: no
\* provider call follows it, and a final text is returned verbatim.
C4_StopsAtFirstFinalResponse ==
    final # NoValue =>
        /\ provider_calls = final.call
        /\ pc \in {"returned", "raised"}
        /\ NonBlank(final.output_text) =>
               pc = "returned" /\ ret = [str |-> final.output_text]

\* The scenario: calculate_pension is requested on call 1 and run, the final
\* text comes on call 2.
C4_Witness ==
    /\ pc = "returned"
    /\ final # NoValue
    /\ final.call = 2
    /\ provider_calls = 2
    /\ ret = [str |-> FinalText]
    /\ Len(tool_runs) = 1
    /\ tool_runs[1].tool = "calculate_pension"
    /\ tool_runs[1].kwargs = ArgsPension.json

\* C5: with the credential configured and every provider call answered, the
\* loop returns a string and raises nothing.
C5_ReturnsWheneverProviderAnswers ==
    pc = "raised" => exc.of \in {"OPENAI_API_KEY", "client.responses.create"}

\* C6: a response without tool requests ends the loop with its text when
\* the text is a non-empty string, and with a string representation of the
\* whole response when the text is empty or absent.
C6_FinalTextOrSerialization ==
    final # NoValue =>
        /\ pc = "returned"
        /\ IF final.output_text \notin {NoneVal, ""}
           THEN ret = [str |-> final.output_text]
           ELSE ret = [json |-> invoke_openai(final.output, final.output_text)]

\* The payload of a result turn.
TurnPayload(t) == IF t.type = "function_call_output" THEN t.output ELSE t.content

\* The result turns of the transcript that answer the request k.
AnswersTo(k) ==
    {i \in DOMAIN loop_input :
        IsResultTurn(loop_input[i]) /\ TurnKey(loop_input[i]) = k}

IsErrorPayload(payload, parsed_args) ==
    /\ "json" \in DOMAIN payload
    /\ DOMAIN payload.json = {"error", "input"}
    /\ payload.json.input = parsed_args
    /\ Len(payload.json.error) = 2
    /\ payload.json.error[1] = [lit |-> "Tool execution failed: "]

\* C7: a tool that raises leaves, for its request, a result turn with the
\* payload {error, input: parsed arguments}; the exception does not leave the
\* loop, which resolves the other requests and goes on.
C7_ToolFailureBecomesErrorPayload ==
    \A r \in DOMAIN tool_runs :
        ~tool_runs[r].returned =>
            LET k == <<"function_call", tool_runs[r].call_id>>
            IN  /\ Cardinality(AnswersTo(k)) = 1
                /\ \A i \in AnswersTo(k) :
                      IsErrorPayload(TurnPayload(loop_input[i]), tool_runs[r].kwargs)
                /\ pc = "raised" =>
                      exc.of = "client.responses.create" \/ final # NoValue
                /\ IterationResolved =>
                      Len(IterationTurns) = Len(function_calls) + Len(tool_uses)

\* fsa_hsa_calculator raises OverflowError for the first request of call 1,
\* the second request is run after it and provider call 2 is made.
C7_Witness ==
    /\ provider_calls = 2
    /\ Len(tool_runs) >= 2
    /\ tool_runs[1].tool = "fsa_hsa_calculator"
    /\ ~tool_runs[1].returned
    /\ tool_runs[1].call_id = <<1, 1>>
    /\ tool_runs[2].call_id = <<1, 2>>
    /\ tool_runs[2].returned

\* The function calls of the iteration that are resolved.
ResolvedFunctionCalls == {function_calls[j] : j \in 1..fc_done}
ResolvedToolUses == {tool_uses[j] : j \in 1..tu_done}

RunsOf(call_id) == {r \in DOMAIN tool_runs : tool_runs[r].call_id = call_id}

\* C8: a function call whose arguments are not valid JSON gets its result
\* turn, the named catalog tool being called with an empty mapping; the
\* decoding error does not leave the loop.
C8_MalformedArgumentsAreEmpty ==
    /\ \A fc \in ResolvedFunctionCalls :
          fc.arguments = ArgsInvalid =>
              /\ Cardinality(AnswersTo(<<"function_call", fc.call_id>>)) = 1
              /\ fc.name \in ToolRegistryNames =>
                    /\ Cardinality(RunsOf(fc.call_id)) = 1
                    /\ \A r \in RunsOf(fc.call_id) :
                          /\ tool_runs[r].tool = fc.name
                          /\ tool_runs[r].kwargs = EmptyDict
                          /\ tool_runs[r].returned
    /\ pc = "raised" => exc.type # "JSONDecodeError"

\* calculate_pension was called with "{invalid" and the iteration is over.
C8_Witness ==
    /\ IterationResolved
    /\ \E fc \in ResolvedFunctionCalls :
          /\ fc.arguments = ArgsInvalid
          /\ fc.name = "calculate_pension"
          /\ \E r \in RunsOf(fc.call_id) : tool_runs[r].kwargs = EmptyDict

HasImplementationNeeded(payload) ==
    /\ "json" \in DOMAIN payload
    /\ DOMAIN payload.json = {"result"}
    /\ \E i \in DOMAIN payload.json.result :
          payload.json.result[i] = [lit |-> ". Implementation needed."]

\* The resolved requests of the iteration, as <<kind, id, name>>.
ResolvedRequests ==
    {<<"function_call", fc.call_id, fc.name>> : fc \in ResolvedFunctionCalls}
        \cup {<<"tool_use", tu.id, tu.name>> : tu \in ResolvedToolUses}

\* C9: a request whose name is empty, missing or not in the catalog runs no
\* tool and gets a placeholder result turn with "Implementation needed"; the
\* loop does not raise.
C9_UnknownToolGetsPlaceholder ==
    \A q \in ResolvedRequests :
        q[3] \notin ToolRegistryNames =>
            /\ RunsOf(q[2]) = {}
            /\ Cardinality(AnswersTo(<<q[1], q[2]>>)) = 1
            /\ \A i \in AnswersTo(<<q[1], q[2]>>) :
                  HasImplementationNeeded(TurnPayload(loop_input[i]))
            /\ pc = "raised" =>
                  exc.of = "client.responses.create" \/ final # NoValue

\* A function call without a name and one of an unknown tool are resolved
\* and no tool has run.
C9_Witness ==
    /\ IterationResolved
    /\ Len(function_calls) = 2
    /\ function_calls[1].name = NoneVal
    /\ function_calls[2].name = "unknown_tool"
    /\ tool_runs = <<>>

\* C10: a request whose name is in the catalog runs that tool exactly once,
\* and when the tool returns, the result turn carries what it returned.
C10_CatalogToolRunsOnce ==
    \A q \in ResolvedRequests :
        q[3] \in ToolRegistryNames =>
            /\ Cardinality(RunsOf(q[2])) = 1
            /\ \A r \in RunsOf(q[2]) :
                  /\ tool_runs[r].tool = q[3]
                  /\ tool_runs[r].returned =>
                        \A i \in AnswersTo(<<q[1], q[2]>>) :
                            TurnPayload(loop_input[i])
                                = CallTool(q[3], tool_runs[r].kwargs).val

SurfacedKeys ==
    [i \in DOMAIN function_calls |-> <<"function_call", function_calls[i].call_id>>]
        \o [i \in DOMAIN tool_uses |-> <<"tool_use", tool_uses[i].id>>]

C14_RequestsSurfacedInProviderOrder ==
    iter > 0 => SurfacedKeys = PresentedKeys(output_items)

\* What invoke_openai keeps: the requests as a bag, and the order inside each
\* of the two lists.
RequestsSurfacedOnce ==
    iter > 0 =>
        /\ Len(SurfacedKeys) = Len(PresentedKeys(output_items))
        /\ \A k \in Range(PresentedKeys(output_items)) :
              Cardinality({i \in DOMAIN SurfacedKeys : SurfacedKeys[i] = k}) = 1

(***************************************************************************)
(* C20: the transcript is append-only. At every step the caller's turns    *)
(* and every turn appended before stay an unchanged prefix; the output     *)
(* items of a response are in the transcript before any result turn of     *)
(* that iteration; every result turn comes after the output item that      *)
(* carries the request it answers.                                         *)
(***************************************************************************)
IsPrefix(p, q) == Len(p) <= Len(q) /\ SubSeq(q, 1, Len(p)) = p

\* The output item at position j carries the request the turn t answers.
Carries(j, t) ==
    /\ "obj" \in DOMAIN loop_input[j]
    /\ TurnKey(t) \in Range(PresentedKeys(<<loop_input[j]>>))

TranscriptInOrder ==
    /\ (pc # "start" /\ env_key) => IsPrefix(input_list, loop_input)
    /\ items_end > 0 =>
          /\ items_end <= Len(loop_input)
          /\ SubSeq(loop_input, items_end - Len(output_items) + 1, items_end)
                = output_items
          /\ Len(IterationTurns) = fc_done + tu_done
          /\ \A i \in DOMAIN IterationTurns : IsResultTurn(IterationTurns[i])
    /\ \A i \in DOMAIN loop_input :
          IsResultTurn(loop_input[i]) =>
              \E j \in 1..(i - 1) : Carries(j, loop_input[i])

C20_TranscriptAppendOnly ==
    /\ []TranscriptInOrder
    /\ [][IsPrefix(loop_input, loop_input')]_vars

C20_Witness ==
    /\ iter = 2
    /\ fc_done + tu_done = 2
    /\ Len(loop_input) > items_end
    /\ \E i \in 1..(items_end - Len(output_items)) : IsResultTurn(loop_input[i])

(***************************************************************************)
(* C16: for every converted tool the required list names every declared    *)
(* parameter, each once and in the order of declaration, and no other      *)
(* name, whatever the required flags of the parameters are.                *)
(***************************************************************************)
DeclaredNames(tool) == [k \in DOMAIN tool.inputs |-> tool.inputs[k].name]

\* The names of a list, each at its first place.
RECURSIVE FirstOccurrences(_, _)
FirstOccurrences(seen, names) ==
    IF names = <<>> THEN <<>>
    ELSE (IF Head(names) \in seen THEN <<>> ELSE <<Head(names)>>)
            \o FirstOccurrences(seen \cup {Head(names)}, Tail(names))

Converted == openai_functions # NoValue

C16_RequiredIsEveryParameter ==
    Converted =>
        /\ Len(openai_functions.list) = Len(conv_tools)
        /\ \A i \in DOMAIN conv_tools :
              LET f == openai_functions.list[i]
                  required == f.parameters.required
              IN  /\ Range(required) = Range(DeclaredNames(conv_tools[i]))
                  /\ required = FirstOccurrences({}, DeclaredNames(conv_tools[i]))
                  /\ required = Keys(f.parameters.properties)
                  /\ f.function.parameters.required = required

C16_Witness ==
    /\ Converted
    /\ \E i \in DOMAIN conv_tools :
          LET inputs == conv_tools[i].inputs
          IN  /\ Len(inputs) >= 2
              /\ inputs[1].name # inputs[2].name
              /\ ~inputs[2].required
              /\ inputs[2].name \in Range(openai_functions.list[i].parameters.required)

(***************************************************************************)
(* C17: the schema of every parameter has the type string for string,      *)
(* integer for integer, number for float, boolean for boolean, array for   *)
(* list, object for map and string for any; an object property has an      *)
(* empty nested property map and additionalProperties false; an array      *)
(* property has items of type string.                                      *)
(***************************************************************************)
SchemaType ==
    [STRING |-> "string", INTEGER |-> "integer", FLOAT |-> "number",
     BOOLEAN |-> "boolean", LIST |-> "array", DICT |-> "object",
     ANY |-> "string"]

\* The last declaration of the name among the inputs: the one the dict keeps.
LastDeclared(inputs, name) ==
    LET k == CHOOSE k \in DOMAIN inputs :
                /\ inputs[k].name = name
                /\ \A j \in DOMAIN inputs : inputs[j].name = name => j <= k
    IN  inputs[k]

PropertyFits(property, tool_input) ==
    /\ property.type = SchemaType[tool_input.type]
    /\ property.description = tool_input.description
    /\ CASE property.type = "object" ->
              /\ DOMAIN property =
                     {"type", "description", "additionalProperties", "properties"}
              /\ property.properties = <<>>
              /\ property.additionalProperties = FALSE
         [] property.type = "array" ->
              /\ DOMAIN property = {"type", "description", "items"}
              /\ property.items = [type |-> "string"]
         [] OTHER -> DOMAIN property = {"type", "description"}

C17_TypeMapping ==
    Converted =>
        \A i \in DOMAIN conv_tools :
            LET properties == openai_functions.list[i].parameters.properties
            IN  /\ \A k \in DOMAIN conv_tools[i].inputs :
                      conv_tools[i].inputs[k].name \in Range(Keys(properties))
                /\ \A e \in DOMAIN properties :
                      PropertyFits(properties[e].value,
                                   LastDeclared(conv_tools[i].inputs, properties[e].key))

C17_Witness ==
    /\ Converted
    /\ \E i \in DOMAIN conv_tools :
          LET properties == openai_functions.list[i].parameters.properties
          IN  /\ Len(properties) = 2
              /\ properties[1].value.type = "object"
              /\ properties[2].value.type = "array"
              /\ conv_tools[i].inputs[1].type = "DICT"
              /\ conv_tools[i].inputs[2].type = "LIST"

(***************************************************************************)
(* C18: get_agents returns one agent per name, in the order of the names,  *)
(* when every name is registered; otherwise it raises an error that names  *)
(* the first name that is not registered and returns nothing. The          *)
(* registry is the same before and after.                                  *)
(***************************************************************************)
Registered(name) == \E i \in DOMAIN AGENT_REGISTRY : AGENT_REGISTRY[i].key = name

FirstUnregistered ==
    agent_names[CHOOSE k \in DOMAIN agent_names :
                    /\ ~Registered(agent_names[k])
                    /\ \A j \in 1..(k - 1) : Registered(agent_names[j])]

GetAgentsOutcome ==
    agents_result # NoValue =>
        IF \A k \in DOMAIN agent_names : Registered(agent_names[k])
        THEN /\ agents_result.ok
             /\ Len(agents_result.val) = Len(agent_names)
             /\ \A k \in DOMAIN agent_names :
                   agents_result.val[k] = DictItem(AGENT_REGISTRY, agent_names[k])
        ELSE /\ ~agents_result.ok
             /\ "val" \notin DOMAIN agents_result
             /\ agents_result.exc.type = "ValueError"
             /\ agents_result.exc.agent_name = FirstUnregistered

C18_GetAgentsAllOrNothing ==
    /\ []GetAgentsOutcome
    /\ [][AGENT_REGISTRY' = AGENT_REGISTRY]_vars

C18_Witness ==
    /\ agents_result # NoValue
    /\ ~agents_result.ok
    /\ Len(agent_names) = 3
    /\ Registered(agent_names[1])
    /\ ~Registered(agent_names[2])
    /\ ~Registered(agent_names[3])
    /\ agent_names[2] # agent_names[3]
    /\ agents_result.exc.agent_name = agent_names[2]

\* The case of names that are all registered, of two agents.
GetAgentsInOrder ==
    /\ agents_result # NoValue
    /\ agents_result.ok
    /\ agent_names = <<"payroll", "benefits">>
    /\ agents_result.val = <<payroll_agent, benefits_agent>>

(***************************************************************************)
(* C13: a configuration error (missing OPENAI_API_KEY, an llm_provider     *)
(* that is no provider, a model that is not supported) is surfaced after   *)
(* one attempt: the workflow does not run invoke_agent again after an      *)
(* attempt that failed with one.                                           *)
(***************************************************************************)
FailedOnConfiguration(i) ==
    /\ activity_log[i].activity = "invoke_agent"
    /\ ~activity_log[i].outcome.ok
    /\ activity_log[i].outcome.exc.config

C13_ConfigurationErrorNotRetried ==
    \A i \in DOMAIN activity_log :
        FailedOnConfiguration(i) =>
            \A j \in DOMAIN activity_log :
                j > i => activity_log[j].activity # "invoke_agent"

(***************************************************************************)
(* C19: a run starts invoke_agent only after an attempt of say_hello       *)
(* completed, starts it with the first agent of the request and with no    *)
(* other, and, when the request lists no agent, fails without starting     *)
(* invoke_agent.                                                           *)
(***************************************************************************)
SayHelloCompletedBefore(i) ==
    \E j \in 1..(i - 1) :
        /\ activity_log[j].activity = "say_hello"
        /\ activity_log[j].outcome.ok

C19_InvokeAgentAfterSayHello ==
    /\ \A i \in DOMAIN activity_log :
          activity_log[i].activity = "invoke_agent" =>
              /\ SayHelloCompletedBefore(i)
              /\ activity_log[i].agent = request.agents[1]
    /\ request.agents = <<>> =>
          /\ wf_pc \in {"say_hello", "failed"}
          /\ (SayHelloCompletedBefore(Len(activity_log) + 1) =>
                 /\ wf_pc = "failed"
                 /\ ~wf_result.ok
                 /\ wf_result.exc.type = "ValueError")
    /\ (wf_pc \in {"invoke_agent", "completed"} =>
           SayHelloCompletedBefore(Len(activity_log) + 1))

C19_Witness ==
    /\ wf_pc = "completed"
    /\ Len(request.agents) = 2
    /\ request.agents[1] # request.agents[2]
    /\ activity_log[Len(activity_log)].activity = "invoke_agent"
    /\ activity_log[Len(activity_log)].agent = request.agents[1]
    /\ Attempts(activity_log, "say_hello") = 2

\* The run of a request that lists no agent.
NoAgentRunFails ==
    /\ request.agents = <<>>
    /\ wf_pc = "failed"
    /\ activity_log # <<>>
    /\ activity_log[Len(activity_log)].outcome.ok

(***************************************************************************)
(* C12: two executions of invoke_openai_loop from equal transcripts, with  *)
(* the same tools and cap, against a provider stub and tools that are      *)
(* functions of their inputs, make the same provider calls and the same    *)
(* tool executions in the same order and return equal strings.             *)
(***************************************************************************)
Finished(i) == inv[i].pc \in {"returned", "raised"}

\* One of the two logs continues the other.
Agree(p, q) == IsPrefix(p, q) \/ IsPrefix(q, p)

Started(i) == inv[i].ref # "none"

C15_TranscriptsAreLocal ==
    /\ heap["caller"] = input_list
    /\ \A i \in Invocations :
          Started(i) =>
              /\ inv[i].ref # "caller"
              /\ \A j \in Invocations \ {i} : inv[j].ref # inv[i].ref
              /\ heap[inv[i].ref] = input_list \o inv[i].appended
    /\ \A i \in Invocations : ~Started(i) => heap[i] = <<>>

C15_Witness ==
    /\ inv["a"].pc = "abandoned"
    /\ inv["a"].fc_done = 1
    /\ Len(inv["a"].tool_uses) = 1
    /\ inv["a"].tu_done = 0
    /\ inv["b"].pc = "returned"
    /\ Len(inv["b"].appended) > Len(inv["a"].appended)
    /\ heap["caller"] = input_list

====
